---------------------------- MODULE Spec2Model ----------------------------
(***************************************************************************)
(* A model of obs-stats (src/src/main.tsx): the login / reconnect          *)
(* supervisor, the sampling loop of useStatus, the baseline reconciler     *)
(* applyStatOffset with Dashboard.reset, and the classifier frameCounter   *)
(* with the per-row computations of ObsStats and OutputStats.              *)
(*                                                                         *)
(* JavaScript values are modelled as follows.  A value that may be null or *)
(* undefined is a record with a field "some"; its other fields are zero    *)
(* when some = FALSE.  Counters are integers.  Ratios are exact fractions  *)
(* <<numerator, denominator>> with a positive denominator: for the frame   *)
(* counts of this model (far below 2^52) the IEEE-754 quotient             *)
(* skipped / total compares with the literals 0.01 and 0.05 exactly as the *)
(* fractions compare with 1/100 and 5/100, because the quotient is         *)
(* correctly rounded and the literals are the doubles nearest 1/100 and    *)
(* 1/20.                                                                   *)
(***************************************************************************)
EXTENDS Integers, Sequences, FiniteSets, Bags, TLC

VARIABLES
    objs,        \* the OBSWebSocket objects created by login, by identity
    obs,         \* App's state `obs`: 0 (null) or the identity of an object
    error,       \* App's state `error`: what the login form shows
    loginPc,     \* the login() call in progress, if any
    storage,     \* localStorage: the persisted address and password
    dash,        \* identity of the mounted Dashboard (0: none); bumps on mount
    outputNames, \* useStatus: outputNames.current
    status,      \* useStatus: status
    prevStatus,  \* useStatus: prevStatus
    ticks,       \* the bag of fetchStats invocations suspended at an await
    offset,      \* Dashboard: offset (the baseline)
    hist,        \* history: what the last steps did (read by the properties)
    call,        \* arguments of a function that is checked on its own
    ret          \* what it returned

vars == <<objs, obs, error, loginPc, storage, dash, outputNames, status,
          prevStatus, ticks, offset, hist, call, ret>>

---------------------------------------------------------------------------
(* Bounds of the model. *)

\* raw frame counters reported by the engine range over 0..MaxCount
MaxCount == 2
\* outputBytes reported by the engine ranges over 0..MaxBytes
MaxBytes == 2
\* frameCounter is checked for totals in 0..MaxFrames
MaxFrames == 100
\* fetchStats invocations that may be suspended at the same time
MaxInFlight == 2
\* OBSWebSocket objects created by login
MaxLogins == 2
\* ConnectionClosed notifications delivered to one object
MaxEvents == 2

---------------------------------------------------------------------------
(* Values. *)

NoStats == [some |-> FALSE, renderSkippedFrames |-> 0, renderTotalFrames |-> 0,
            outputSkippedFrames |-> 0, outputTotalFrames |-> 0]

nullObsStatus == [some |-> TRUE, renderSkippedFrames |-> 0, renderTotalFrames |-> 0,
                  outputSkippedFrames |-> 0, outputTotalFrames |-> 0]

NoOutputStatus == [some |-> FALSE, outputSkippedFrames |-> 0,
                   outputTotalFrames |-> 0, outputBytes |-> 0]

NoOutput == [some |-> FALSE, name |-> "", status |-> NoOutputStatus]

NoStatus == [some |-> FALSE, stats |-> NoStats, outputs |-> <<>>]

nullFrameOffset == [renderSkippedFrames |-> 0, renderTotalFrames |-> 0,
                    outputSkippedFrames |-> 0, outputTotalFrames |-> 0,
                    outputs |-> <<>>]

THRESHOLD_WARNING == <<1, 100>>

THRESHOLD_CRITICAL == <<5, 100>>

\* a > b for fractions with positive denominators
RatGT(a, b) == a[1] * b[2] > b[1] * a[2]

\* JavaScript's `x || 0` and truthiness of a number that may be undefined
OrZero(some, x) == IF some /\ x # 0 THEN x ELSE 0

\* offset.outputs as a sequence of entries [name, outputSkippedFrames,
\* outputTotalFrames] with pairwise different names, in insertion order
OffsetHas(outs, name) == \E i \in 1..Len(outs) : outs[i].name = name

OffsetGet(outs, name) ==
    IF OffsetHas(outs, name)
    THEN LET i == CHOOSE j \in 1..Len(outs) : outs[j].name = name
         IN  [outputSkippedFrames |-> outs[i].outputSkippedFrames,
              outputTotalFrames |-> outs[i].outputTotalFrames]
    ELSE [outputSkippedFrames |-> 0, outputTotalFrames |-> 0]

\* Array.prototype.find(p => p.name === name) || null
Find(outputs, name) ==
    IF \E i \in 1..Len(outputs) : outputs[i].name = name
    THEN LET i == CHOOSE j \in 1..Len(outputs) :
                    /\ outputs[j].name = name
                    /\ \A k \in 1..(j - 1) : outputs[k].name # name
         IN  [some |-> TRUE, name |-> name, status |-> outputs[i].status]
    ELSE NoOutput

---------------------------------------------------------------------------
(* The classifier. *)

\* a variant with inclusive thresholds (>= for >), which property C7 must
\* tell from frameCounter
frameCounterInclusive(totalFrames, skippedFrames) ==
    LET skippedRatio == IF totalFrames > 0 THEN <<skippedFrames, totalFrames>>
                                           ELSE <<0, 1>>
    IN  [skippedRatio |-> skippedRatio,
         counterClass |->
            IF ~RatGT(THRESHOLD_CRITICAL, skippedRatio) THEN "lag--critical"
            ELSE IF ~RatGT(THRESHOLD_WARNING, skippedRatio) THEN "lag--warning"
            ELSE "lag--normal"]

frameCounter(totalFrames, skippedFrames) ==
    LET skippedRatio == IF totalFrames > 0 THEN <<skippedFrames, totalFrames>>
                                           ELSE <<0, 1>>
    IN  [skippedRatio |-> skippedRatio,
         counterClass |->
            IF RatGT(skippedRatio, THRESHOLD_CRITICAL) THEN "lag--critical"
            ELSE IF RatGT(skippedRatio, THRESHOLD_WARNING) THEN "lag--warning"
            ELSE "lag--normal"]


---------------------------------------------------------------------------
(* The baseline reconciler. *)

\* `state.status?.stats.x` throws a TypeError when the snapshot is there and
\* its stats are undefined (statsResp.responseData was undefined)
StatsMissing(s) == s.some /\ ~s.stats.some

\* the guards of lines 295 and 304 read state.status?.stats.<x> and
\* state.prevStatus?.stats.<x> only behind a truthy baseline total
applyStatOffsetThrows(state, off) ==
    /\ off.renderTotalFrames # 0 \/ off.outputTotalFrames # 0
    /\ StatsMissing(state.status) \/ StatsMissing(state.prevStatus)

renderRollback(state, off) ==
    /\ off.renderTotalFrames # 0
    /\ OrZero(state.status.some, state.status.stats.renderTotalFrames)
         < OrZero(state.prevStatus.some, state.prevStatus.stats.renderTotalFrames)

outputRollback(state, off) ==
    /\ off.outputTotalFrames # 0
    /\ OrZero(state.status.some, state.status.stats.outputTotalFrames)
         < OrZero(state.prevStatus.some, state.prevStatus.stats.outputTotalFrames)

\* a variant of the guard of line 315 with <= for <, which property C14
\* must tell from namedOutputRollback
namedOutputRollbackInclusive(state, off, output) ==
    LET prevOutput == Find(state.prevStatus.outputs, output.name)
    IN  /\ OffsetGet(off.outputs, output.name).outputTotalFrames # 0
        /\ output.status.outputTotalFrames
             <= OrZero(prevOutput.some, prevOutput.status.outputTotalFrames)

\* the guard of line 315 for one entry of state.status.outputs
namedOutputRollback(state, off, output) ==
    LET prevOutput == Find(state.prevStatus.outputs, output.name)
    IN  /\ OffsetGet(off.outputs, output.name).outputTotalFrames # 0
        /\ output.status.outputTotalFrames
             < OrZero(prevOutput.some, prevOutput.status.outputTotalFrames)

\* a variant of the rollback rule that replaces the whole baseline by
\* nullFrameOffset when the render pair rolls back, which property C17 must
\* tell from reconcileRollback
reconcileClearsAll(state, off) ==
    IF renderRollback(state, off)
    THEN [renderSkippedFrames |-> 0, renderTotalFrames |-> 0,
          outputSkippedFrames |-> 0, outputTotalFrames |-> 0,
          outputs |-> [i \in 1..Len(off.outputs) |->
                         [name |-> off.outputs[i].name,
                          outputSkippedFrames |-> 0, outputTotalFrames |-> 0]]]
    ELSE [renderSkippedFrames |-> off.renderSkippedFrames,
          renderTotalFrames |-> off.renderTotalFrames,
          outputSkippedFrames |->
             IF outputRollback(state, off) THEN 0 ELSE off.outputSkippedFrames,
          outputTotalFrames |->
             IF outputRollback(state, off) THEN 0 ELSE off.outputTotalFrames,
          outputs |->
             [i \in 1..Len(off.outputs) |->
                 IF \E k \in 1..Len(state.status.outputs) :
                       /\ state.status.outputs[k].name = off.outputs[i].name
                       /\ namedOutputRollback(state, off, state.status.outputs[k])
                 THEN [name |-> off.outputs[i].name,
                       outputSkippedFrames |-> 0, outputTotalFrames |-> 0]
                 ELSE off.outputs[i]]]

\* a variant of the rollback rule that clears the totals and keeps the
\* skipped counts, which property C2 must tell from reconcileRollback
reconcileClearsTotals(state, off) ==
    [renderSkippedFrames |-> off.renderSkippedFrames,
     renderTotalFrames |->
        IF renderRollback(state, off) THEN 0 ELSE off.renderTotalFrames,
     outputSkippedFrames |-> off.outputSkippedFrames,
     outputTotalFrames |->
        IF outputRollback(state, off) THEN 0 ELSE off.outputTotalFrames,
     outputs |-> off.outputs]

\* lines 295-332: the baseline after the rollback rule
reconcileRollback(state, off) ==
    [renderSkippedFrames |->
        IF renderRollback(state, off) THEN 0 ELSE off.renderSkippedFrames,
     renderTotalFrames |->
        IF renderRollback(state, off) THEN 0 ELSE off.renderTotalFrames,
     outputSkippedFrames |->
        IF outputRollback(state, off) THEN 0 ELSE off.outputSkippedFrames,
     outputTotalFrames |->
        IF outputRollback(state, off) THEN 0 ELSE off.outputTotalFrames,
     outputs |->
        [i \in 1..Len(off.outputs) |->
            IF \E k \in 1..Len(state.status.outputs) :
                  /\ state.status.outputs[k].name = off.outputs[i].name
                  /\ namedOutputRollback(state, off, state.status.outputs[k])
            THEN [name |-> off.outputs[i].name,
                  outputSkippedFrames |-> 0, outputTotalFrames |-> 0]
            ELSE off.outputs[i]]]

\* lines 335-341 and 343-349
adjustStats(stats, off) ==
    [some |-> TRUE,
     renderSkippedFrames |-> stats.renderSkippedFrames - off.renderSkippedFrames,
     renderTotalFrames |-> stats.renderTotalFrames - off.renderTotalFrames,
     outputSkippedFrames |-> stats.outputSkippedFrames - off.outputSkippedFrames,
     outputTotalFrames |-> stats.outputTotalFrames - off.outputTotalFrames]

\* lines 351-364 and 366-379
adjustOutputs(outputs, off) ==
    [i \in 1..Len(outputs) |->
        LET origOutputOffset == OffsetGet(off.outputs, outputs[i].name)
        IN  [name |-> outputs[i].name,
             status |->
                [some |-> TRUE,
                 outputSkippedFrames |-> outputs[i].status.outputSkippedFrames
                                           - origOutputOffset.outputSkippedFrames,
                 outputTotalFrames |-> outputs[i].status.outputTotalFrames
                                           - origOutputOffset.outputTotalFrames,
                 outputBytes |-> outputs[i].status.outputBytes]]]

\* the baseline that applyStatOffset leaves: its in-place writes and its
\* setOffset calls store the same values, and nothing is written when it throws
settledOffset(state, off) ==
    IF applyStatOffsetThrows(state, off) THEN off
                                         ELSE reconcileRollback(state, off)

\* a variant that adjusts the previous snapshot with the baseline as it was
\* before the rollback rule, which property C18 must tell from
\* applyStatOffset
applyStatOffsetStalePrev(state, off) ==
    IF applyStatOffsetThrows(state, off)
    THEN [threw |-> TRUE, offset |-> off,
          adjustedStats |-> NoStats, adjustedPrevStats |-> NoStats,
          adjustedOutputs |-> <<>>, adjustedPrevOutputs |-> <<>>]
    ELSE LET o == settledOffset(state, off)
             origStats == IF state.status.some /\ state.status.stats.some
                          THEN state.status.stats ELSE nullObsStatus
         IN  [threw |-> FALSE, offset |-> o,
              adjustedStats |-> adjustStats(origStats, o),
              adjustedPrevStats |->
                 IF state.prevStatus.some /\ state.prevStatus.stats.some
                 THEN adjustStats(state.prevStatus.stats, off) ELSE NoStats,
              adjustedOutputs |-> adjustOutputs(state.status.outputs, o),
              adjustedPrevOutputs |-> adjustOutputs(state.prevStatus.outputs, off)]

\* applyStatOffset(state, offset, setOffset): the baseline it leaves and what
\* it returns (nothing when it throws)
applyStatOffset(state, off) ==
    IF applyStatOffsetThrows(state, off)
    THEN [threw |-> TRUE, offset |-> off,
          adjustedStats |-> NoStats, adjustedPrevStats |-> NoStats,
          adjustedOutputs |-> <<>>, adjustedPrevOutputs |-> <<>>]
    ELSE LET o == settledOffset(state, off)
             origStats == IF state.status.some /\ state.status.stats.some
                          THEN state.status.stats ELSE nullObsStatus
         IN  [threw |-> FALSE, offset |-> o,
              adjustedStats |-> adjustStats(origStats, o),
              adjustedPrevStats |->
                 IF state.prevStatus.some /\ state.prevStatus.stats.some
                 THEN adjustStats(state.prevStatus.stats, o) ELSE NoStats,
              adjustedOutputs |-> adjustOutputs(state.status.outputs, o),
              adjustedPrevOutputs |-> adjustOutputs(state.prevStatus.outputs, o)]

\* Dashboard.reset throws on `state.status?.stats.x` like the guards above
resetThrows(state) == StatsMissing(state.status)

\* Dashboard.reset: the baseline handed to setOffset
reset(state) ==
    [renderSkippedFrames |->
        OrZero(state.status.some, state.status.stats.renderSkippedFrames),
     renderTotalFrames |->
        OrZero(state.status.some, state.status.stats.renderTotalFrames),
     outputSkippedFrames |->
        OrZero(state.status.some, state.status.stats.outputSkippedFrames),
     outputTotalFrames |->
        OrZero(state.status.some, state.status.stats.outputTotalFrames),
     outputs |->
        [i \in 1..Len(state.status.outputs) |->
            [name |-> state.status.outputs[i].name,
             outputSkippedFrames |->
                state.status.outputs[i].status.outputSkippedFrames,
             outputTotalFrames |->
                state.status.outputs[i].status.outputTotalFrames]]]

---------------------------------------------------------------------------
(* What the components compute from the adjusted snapshot pair. *)

\* a variant that compares with the previous counters without asking
\* whether there are any, which property C9 must tell from ObsStats
ObsStatsUnguarded(stats, prevStats) ==
    [renderFramesClass |->
        frameCounter(stats.renderTotalFrames, stats.renderSkippedFrames).counterClass,
     encodeFramesClass |->
        frameCounter(stats.outputTotalFrames, stats.outputSkippedFrames).counterClass,
     renderFramesDropped |->
        stats.renderSkippedFrames > prevStats.renderSkippedFrames,
     encodeFramesDropped |->
        stats.outputSkippedFrames > prevStats.outputSkippedFrames]

ObsStats(stats, prevStats) ==
    [renderFramesClass |->
        frameCounter(stats.renderTotalFrames, stats.renderSkippedFrames).counterClass,
     encodeFramesClass |->
        frameCounter(stats.outputTotalFrames, stats.outputSkippedFrames).counterClass,
     renderFramesDropped |->
        prevStats.some /\ stats.renderSkippedFrames > prevStats.renderSkippedFrames,
     encodeFramesDropped |->
        prevStats.some /\ stats.outputSkippedFrames > prevStats.outputSkippedFrames]

\* a variant without the guard prevStats.status.outputBytes <=
\* stats.status.outputBytes, which property C8 must tell from OutputStats
OutputStatsSigned(stats, prevStats) ==
    [name |-> stats.name,
     counterClass |->
        frameCounter(stats.status.outputTotalFrames,
                     stats.status.outputSkippedFrames).counterClass,
     bitsSinceLastPoll |->
        IF prevStats.some
        THEN (stats.status.outputBytes - prevStats.status.outputBytes) * 8
        ELSE 0,
     droppedFrames |->
        /\ prevStats.some
        /\ stats.status.outputSkippedFrames > prevStats.status.outputSkippedFrames]

OutputStats(stats, prevStats) ==
    [name |-> stats.name,
     counterClass |->
        frameCounter(stats.status.outputTotalFrames,
                     stats.status.outputSkippedFrames).counterClass,
     bitsSinceLastPoll |->
        IF prevStats.some /\ prevStats.status.outputBytes <= stats.status.outputBytes
        THEN (stats.status.outputBytes - prevStats.status.outputBytes) * 8
        ELSE 0,
     droppedFrames |->
        /\ prevStats.some
        /\ stats.status.outputSkippedFrames > prevStats.status.outputSkippedFrames]

OutputsTable(outputs, prevOutputs) ==
    [i \in 1..Len(outputs) |->
        OutputStats(outputs[i], Find(prevOutputs, outputs[i].name))]

\* one render of Dashboard with baseline `off`
Dashboard(state, off) ==
    LET a == applyStatOffset(state, off)
    IN  [threw |-> a.threw,
         offset |-> a.offset,
         adjustedStats |-> a.adjustedStats,
         adjustedOutputs |-> a.adjustedOutputs,
         adjustedPrevStats |-> a.adjustedPrevStats,
         adjustedPrevOutputs |-> a.adjustedPrevOutputs,
         obsStats |-> ObsStats(a.adjustedStats, a.adjustedPrevStats),
         rows |-> OutputsTable(a.adjustedOutputs, a.adjustedPrevOutputs)]

---------------------------------------------------------------------------
(* login: the address and the connection objects. *)

\* what the user may type as address and password.  The last address is
\* not parseable as a URL.
Credentials ==
    { [address |-> "localhost:4455", password |-> ""],
      [address |-> "ws://studio:4455", password |-> "secret"],
      [address |-> "ws://[", password |-> ""] }

\* address.includes('://')
includesScheme(address) == address \in {"ws://studio:4455", "ws://["}

\* new URL(address.includes('://') ? address : `ws://${address}`).href;
\* "" stands for the TypeError that new URL throws
addressUrl(address) ==
    IF includesScheme(address)
    THEN (IF address = "ws://studio:4455" THEN "ws://studio:4455/" ELSE "")
    ELSE (IF address = "localhost:4455" THEN "ws://localhost:4455/" ELSE "")

\* `password || undefined`
passwordArg(password) == IF password = "" THEN "undefined" ELSE password

NoConnect == [url |-> "", password |-> ""]

\* a new OBSWebSocket() inside login(address, password)
newObject(address, password) ==
    [sock |-> "new",           \* new | connecting | open | closed
     epoch |-> 0,              \* sockets this object has opened
     address |-> address,      \* login's arguments, closed over by the handler
     password |-> password,
     listening |-> FALSE,      \* a ConnectionClosed listener is registered
     waiting |-> 0,            \* handler invocations inside delay(1000)
     events |-> 0,             \* ConnectionClosed notifications handled
     attempts |-> 0,           \* obs.connect calls made by the handler
     loginConnect |-> NoConnect,\* arguments of login's obs.connect call
     lastConnect |-> NoConnect,\* arguments of the last obs.connect call
     failed |-> FALSE,         \* an obs.connect call of the handler rejected
     byHandler |-> FALSE,      \* the connect in progress was made by the handler
     disconnected |-> FALSE,   \* Dashboard.disconnect was called on it
     attemptsAfterDisconnect |-> 0]

\* line 134: obs.connect(addressUrl.href, password || undefined)
loginConnectArgs(address, password) ==
    [url |-> addressUrl(address), password |-> passwordArg(password)]

\* a variant that connects to the address as typed, which property C10
\* must tell from handlerConnectArgs
handlerConnectTyped(o) ==
    [url |-> o.address, password |-> passwordArg(o.password)]

\* line 140: the handler's obs.connect(addressUrl.href, password || undefined),
\* with the addressUrl and password of the login call that registered it
handlerConnectArgs(o) ==
    [url |-> addressUrl(o.address), password |-> passwordArg(o.password)]

---------------------------------------------------------------------------
(* The sampling loop: what one fetchStats invocation does at each await. *)

\* parseOutputNames: outputListResp.outputs.map(o => o.outputName)
parseOutputNames(outputListResp) ==
    [i \in 1..Len(outputListResp.outputs) |-> outputListResp.outputs[i].outputName]

\* lines 577-584.  names is outputNames.current when the batch resolves,
\* outputStatusResps are the responses to the requests built before it was
\* sent.  outputStatusResps[i].responseData throws when there is no i-th
\* response.
buildThrows(names, outputStatusResps) == Len(names) > Len(outputStatusResps)

buildState(statsResp, names, outputStatusResps) ==
    LET Kept(o) == o.status.some
    IN  [some |-> TRUE,
         stats |-> statsResp.responseData,
         outputs |-> SelectSeq([i \in 1..Len(names) |->
                                   [name |-> names[i],
                                    status |-> outputStatusResps[i].responseData]],
                               Kept)]

\* the status results of a batch, each under the name its request was
\* built for (lines 564-568), without the absent ones
pairedByRequest(req, outputStatusResps) ==
    LET Present(o) == o.status.some
    IN  SelectSeq([i \in 1..Len(req) |->
                      [name |-> req[i],
                       status |-> outputStatusResps[i].responseData]],
                  Present)

\* a variant that publishes the new snapshot as the previous one too, which
\* property C1 must tell from rotate
rotatePublishesNew(st, prev, state) == [status |-> state, prevStatus |-> state]

\* lines 588-591: setStatus(previous => { setPrevStatus(previous); return state })
rotate(st, prev, state) == [status |-> state, prevStatus |-> st]

State == [status |-> status, prevStatus |-> prevStatus]

---------------------------------------------------------------------------
(* Initial state: the login form is shown, nothing is connected. *)

NoStorage == [address |-> "null", password |-> "null"]

\* last: the last step of the loop that committed, failed or reset;
\* commits: snapshots committed by this Dashboard, counted up to 3;
\* lastCommitted, prevCommitted: the snapshots built by the last two commits;
\* ownRequests: whether the outputs of the last committed snapshot are the
\* status results of that tick's batch, each under the name its request
\* was built for (absent results left out)
InitHist == [last |-> "init", commits |-> 0,
             lastCommitted |-> NoStatus, prevCommitted |-> NoStatus,
             ownRequests |-> TRUE]

InitDashboard ==
    /\ outputNames = <<>>
    /\ status = NoStatus
    /\ prevStatus = NoStatus
    /\ offset = nullFrameOffset

Init ==
    /\ objs = <<>>
    /\ obs = 0
    /\ error = ""
    /\ loginPc = 0
    /\ storage = NoStorage
    /\ dash = 0
    /\ ticks = EmptyBag
    /\ InitDashboard
    /\ hist = InitHist
    /\ call = <<>>
    /\ ret = <<>>

loopVars == <<outputNames, status, prevStatus, ticks, offset>>
connVars == <<objs, obs, error, loginPc, storage, dash>>
pureVars == <<call, ret>>

---------------------------------------------------------------------------
(* The reconnect supervisor. *)

\* LoginForm.attemptLogin -> login, up to `await obs.connect(...)`.  When
\* new URL throws, login rejects before connect is called: attemptLogin's
\* .then never runs and neither setObs nor setError is called.
AttemptLogin(c) ==
    /\ obs = 0
    /\ loginPc = 0
    /\ Len(objs) < MaxLogins
    /\ IF addressUrl(c.address) = ""
       THEN /\ objs' = Append(objs, newObject(c.address, c.password))
            /\ UNCHANGED hist
            /\ UNCHANGED loginPc
       ELSE /\ objs' = Append(objs,
                 [newObject(c.address, c.password) EXCEPT
                     !.sock = "connecting",
                     !.loginConnect = loginConnectArgs(c.address, c.password),
                     !.lastConnect = loginConnectArgs(c.address, c.password)])
            /\ loginPc' = Len(objs) + 1
            /\ UNCHANGED hist
    /\ UNCHANGED <<obs, error, storage, dash, loopVars, pureVars>>

\* the first fetchStats() of useStatus's effect, up to its first await
firstTick(d, o, e, names) ==
    [dash |-> d, obj |-> o, epoch |-> e,
     pc |-> IF names = <<>> THEN "list" ELSE "batch", req |-> names]

\* obs.connect resolves inside login: lines 135-143, then attemptLogin's
\* .then (setObs, setError), then the Dashboard mounts with fresh state,
\* renders once and its effect calls fetchStats() and setInterval
LoginConnected ==
    /\ loginPc # 0
    /\ objs[loginPc].sock = "connecting"
    /\ objs' = [objs EXCEPT ![loginPc] =
                  [@ EXCEPT !.sock = "open", !.epoch = @ + 1, !.listening = TRUE]]
    /\ storage' = [address |-> objs[loginPc].address,
                   password |-> objs[loginPc].password]
    /\ obs' = loginPc
    /\ error' = ""
    /\ loginPc' = 0
    /\ dash' = dash + 1
    /\ outputNames' = <<>>
    /\ status' = NoStatus
    /\ prevStatus' = NoStatus
    /\ offset' = settledOffset([status |-> NoStatus, prevStatus |-> NoStatus],
                               nullFrameOffset)
    /\ ticks' = ticks (+) SetToBag({firstTick(dash + 1, loginPc,
                                                objs[loginPc].epoch + 1, <<>>)})
    /\ hist' = [InitHist EXCEPT !.last = "mounted"]
    /\ UNCHANGED pureVars

\* a variant that stores the address and password of a failed login, which
\* property C13 must tell from LoginFailed
LoginFailedPersists(message) ==
    /\ loginPc # 0
    /\ objs[loginPc].sock = "connecting"
    /\ objs' = [objs EXCEPT ![loginPc] = [@ EXCEPT !.sock = "closed"]]
    /\ storage' = [address |-> objs[loginPc].address,
                   password |-> objs[loginPc].password]
    /\ obs' = 0
    /\ error' = message
    /\ loginPc' = 0
    /\ UNCHANGED hist
    /\ UNCHANGED <<dash, loopVars, pureVars>>

\* obs.connect rejects inside login: the .catch of lines 144-146, then
\* attemptLogin's .then
LoginFailed(message) ==
    /\ loginPc # 0
    /\ objs[loginPc].sock = "connecting"
    /\ objs' = [objs EXCEPT ![loginPc] = [@ EXCEPT !.sock = "closed"]]
    /\ obs' = 0
    /\ error' = message
    /\ loginPc' = 0
    /\ UNCHANGED hist
    /\ UNCHANGED <<storage, dash, loopVars, pureVars>>

\* the handler of line 138 is called and suspends in delay(1000)
notified(o) == [o EXCEPT !.waiting = @ + 1, !.events = @ + 1]

\* the transport loses an open connection without being asked to
ConnectionLost(i) ==
    /\ objs[i].sock = "open"
    /\ objs[i].listening => objs[i].events < MaxEvents
    /\ objs' = [objs EXCEPT ![i] =
                  IF @.listening THEN notified([@ EXCEPT !.sock = "closed"])
                                 ELSE [@ EXCEPT !.sock = "closed"]]
    /\ UNCHANGED hist
    /\ UNCHANGED <<obs, error, loginPc, storage, dash, loopVars, pureVars>>

\* line 140: delay(1000) is over and the handler calls obs.connect
DelayElapsed(i) ==
    /\ objs[i].waiting > 0
    /\ objs' = [objs EXCEPT ![i] =
                  [@ EXCEPT !.waiting = @ - 1,
                            !.attempts = @ + 1,
                            !.attemptsAfterDisconnect =
                                IF objs[i].disconnected THEN @ + 1 ELSE @,
                            !.lastConnect = handlerConnectArgs(objs[i]),
                            !.byHandler = TRUE,
                            !.sock = "connecting"]]
    /\ UNCHANGED hist
    /\ UNCHANGED <<obs, error, loginPc, storage, dash, loopVars, pureVars>>

\* the handler's obs.connect resolves
ReconnectOk(i) ==
    /\ objs[i].sock = "connecting"
    /\ objs[i].byHandler
    /\ objs' = [objs EXCEPT ![i] =
                  [@ EXCEPT !.sock = "open", !.epoch = @ + 1, !.byHandler = FALSE]]
    /\ UNCHANGED hist
    /\ UNCHANGED <<obs, error, loginPc, storage, dash, loopVars, pureVars>>

\* the handler's obs.connect rejects (nobody catches it).  The transport
\* client may or may not report the close of the failed attempt's socket
\* as ConnectionClosed.
ReconnectFailed(i, notify) ==
    /\ objs[i].sock = "connecting"
    /\ objs[i].byHandler
    /\ notify => objs[i].listening /\ objs[i].events < MaxEvents
    /\ objs' = [objs EXCEPT ![i] =
                  IF notify
                  THEN notified([@ EXCEPT !.sock = "closed", !.byHandler = FALSE,
                                          !.failed = TRUE])
                  ELSE [@ EXCEPT !.sock = "closed", !.byHandler = FALSE,
                                 !.failed = TRUE]]
    /\ UNCHANGED hist
    /\ UNCHANGED <<obs, error, loginPc, storage, dash, loopVars, pureVars>>

\* a variant without obs.disconnect(): the socket stays as it is, which
\* property C11 must tell from Disconnect
DisconnectKeepsSocket ==
    /\ obs # 0
    /\ objs' = [objs EXCEPT ![obs] =
                  [@ EXCEPT !.listening = FALSE, !.disconnected = TRUE]]
    /\ obs' = 0
    /\ UNCHANGED hist
    /\ UNCHANGED <<error, loginPc, storage, dash, loopVars, pureVars>>

\* Dashboard.disconnect: obs.off, obs.disconnect, setObs(null); the
\* Dashboard unmounts and its effect's cleanup clears the interval
Disconnect ==
    /\ obs # 0
    /\ objs' = [objs EXCEPT ![obs] =
                  [@ EXCEPT !.listening = FALSE,
                            !.sock = "closed",
                            !.byHandler = FALSE,
                            !.disconnected = TRUE]]
    /\ obs' = 0
    /\ UNCHANGED hist
    /\ UNCHANGED <<error, loginPc, storage, dash, loopVars, pureVars>>

\* LoginForm.forget
Forget ==
    /\ obs = 0
    /\ storage' = NoStorage
    /\ UNCHANGED hist
    /\ UNCHANGED <<objs, obs, error, loginPc, dash, loopVars, pureVars>>

---------------------------------------------------------------------------
(* The sampling loop. *)

\* the suspended invocations of the mounted Dashboard's interval
InFlight == BagCardinality(ticks)

\* a response can arrive only on the socket the request was sent on
canResolve(t) ==
    /\ objs[t.obj].sock = "open"
    /\ objs[t.obj].epoch = t.epoch

\* setInterval calls fetchStats, which runs to its first await: line 562 when
\* outputNames.current is empty, line 569 otherwise
IntervalFire ==
    /\ obs # 0
    /\ InFlight < MaxInFlight
    /\ ticks' = ticks (+) SetToBag({firstTick(dash, obs, objs[obs].epoch,
                                              outputNames)})
    /\ UNCHANGED hist
    /\ UNCHANGED <<connVars, outputNames, status, prevStatus, offset, pureVars>>

\* obs.call('GetOutputList') resolves: line 562 assigns outputNames.current,
\* lines 564-573 build and send the batch
ListResolve(t, outputListResp) ==
    /\ BagIn(t, ticks)
    /\ t.pc = "list"
    /\ canResolve(t)
    /\ outputNames' = parseOutputNames(outputListResp)
    /\ ticks' = (ticks (-) SetToBag({t}))
                    (+) SetToBag({[t EXCEPT !.pc = "batch",
                                            !.req = parseOutputNames(outputListResp)]})
    /\ UNCHANGED hist
    /\ UNCHANGED <<connVars, status, prevStatus, offset, pureVars>>

\* obs.call or obs.callBatch rejects: fetchStats rejects at its await
TickReject(t) ==
    /\ BagIn(t, ticks)
    /\ ticks' = ticks (-) SetToBag({t})
    /\ hist' = [hist EXCEPT !.last = "tickRejected"]
    /\ UNCHANGED <<connVars, outputNames, status, prevStatus, offset, pureVars>>

\* obs.callBatch resolves with resp: lines 574-592, then the Dashboard
\* renders with the new state (applyStatOffset)
BatchResolve(t, resp) ==
    /\ BagIn(t, ticks)
    /\ t.pc = "batch"
    /\ canResolve(t)
    /\ Len(resp.outputStatusResps) = Len(t.req)
    /\ ticks' = ticks (-) SetToBag({t})
    /\ IF buildThrows(outputNames, resp.outputStatusResps)
       THEN /\ hist' = [hist EXCEPT !.last = "batchThrew"]
            /\ UNCHANGED <<outputNames, status, prevStatus, offset>>
       ELSE LET state == buildState(resp.statsResp, outputNames,
                                    resp.outputStatusResps)
                next == rotate(status, prevStatus, state)
            IN  /\ status' = next.status
                /\ prevStatus' = next.prevStatus
                /\ outputNames' = IF resp.outputListResp.some
                                  THEN parseOutputNames(resp.outputListResp)
                                  ELSE outputNames
                /\ offset' = settledOffset(next, offset)
                /\ hist' = [last |-> IF ~resp.statsResp.responseData.some
                                     THEN "committedNoStats"
                                     ELSE IF ~resp.outputListResp.some
                                     THEN "committedNoList"
                                     ELSE "committed",
                            commits |-> IF hist.commits < 3
                                        THEN hist.commits + 1 ELSE 3,
                            lastCommitted |-> state,
                            prevCommitted |-> hist.lastCommitted,
                            ownRequests |->
                               state.outputs = pairedByRequest(t.req,
                                                   resp.outputStatusResps)]
    /\ UNCHANGED <<connVars, pureVars>>

\* Dashboard.reset, then the Dashboard renders with the new baseline
Reset ==
    /\ obs # 0
    /\ IF resetThrows(State)
       THEN /\ hist' = [hist EXCEPT !.last = "resetThrew"]
            /\ UNCHANGED offset
       ELSE /\ offset' = settledOffset(State, reset(State))
            /\ hist' = [hist EXCEPT !.last = "reset"]
    /\ UNCHANGED <<connVars, outputNames, status, prevStatus, ticks, pureVars>>

---------------------------------------------------------------------------
(* What the engine may answer. *)

\* GetOutputList: output names are unique in the engine
listResponse(names) ==
    [some |-> TRUE, outputs |-> [i \in 1..Len(names) |-> [outputName |-> names[i]]]]

NoListResponse == [some |-> FALSE, outputs |-> <<>>]

\* skipped and total frame counts with skipped <= total
Pairs == { p \in (0..MaxCount) \X (0..MaxCount) : p[1] <= p[2] }

mkStats(render, output) ==
    [some |-> TRUE,
     renderSkippedFrames |-> render[1], renderTotalFrames |-> render[2],
     outputSkippedFrames |-> output[1], outputTotalFrames |-> output[2]]

mkOutputStatus(frames, bytes) ==
    [some |-> TRUE, outputSkippedFrames |-> frames[1],
     outputTotalFrames |-> frames[2], outputBytes |-> bytes]

\* the batch responses to the requests of a tick, from the values the
\* engine may report: a sub-response without responseData is NoStats,
\* NoOutputStatus or NoListResponse
BatchResponses(req, lists, stats, statuses) ==
    { [outputListResp |-> l, statsResp |-> [responseData |-> s],
       outputStatusResps |-> [i \in 1..Len(req) |-> [responseData |-> o[i]]]] :
         l \in lists, s \in stats, o \in [1..Len(req) -> statuses] }

---------------------------------------------------------------------------
(* The sampling loop on its own: a Dashboard over one open connection. *)

\* the state LoginConnected leaves after login("localhost:4455", "")
InitLoop ==
    /\ objs = << [newObject("localhost:4455", "") EXCEPT
                    !.sock = "open", !.epoch = 1, !.listening = TRUE,
                    !.loginConnect = loginConnectArgs("localhost:4455", ""),
                    !.lastConnect = loginConnectArgs("localhost:4455", "")] >>
    /\ obs = 1
    /\ error = ""
    /\ loginPc = 0
    /\ storage = [address |-> "localhost:4455", password |-> ""]
    /\ dash = 1
    /\ ticks = SetToBag({firstTick(1, 1, 1, <<>>)})
    /\ InitDashboard
    /\ hist = [InitHist EXCEPT !.last = "mounted"]
    /\ call = <<>>
    /\ ret = <<>>

LoopLists ==
    { listResponse(n) : n \in {<<>>, <<"a">>, <<"b", "a">>} }
        \cup {NoListResponse}

LoopStats == { mkStats(<<0, 1>>, <<0, 1>>), mkStats(<<1, 2>>, <<1, 2>>), NoStats }

LoopStatuses == { mkOutputStatus(<<0, 1>>, 1), NoOutputStatus }

Next ==
    \/ IntervalFire
    \/ \E t \in BagToSet(ticks), l \in LoopLists : l.some /\ ListResolve(t, l)
    \/ \E t \in BagToSet(ticks) : TickReject(t)
    \/ \E t \in BagToSet(ticks) :
          \E resp \in BatchResponses(t.req, LoopLists, LoopStats, LoopStatuses) :
             BatchResolve(t, resp)

Spec == InitLoop /\ [][Next]_vars

---------------------------------------------------------------------------
(* The baseline over successive ticks: the engine reports one output, "a", *)
(* and the same pair of counts for the render frames, the output frames    *)
(* and the frames of "a", whose status may be missing.                     *)

BaselineResponses(req) ==
    { [outputListResp |-> listResponse(<<"a">>),
       statsResp |-> [responseData |-> mkStats(p, p)],
       outputStatusResps |->
          [i \in 1..Len(req) |->
              [responseData |-> IF there THEN mkOutputStatus(p, p[2])
                                         ELSE NoOutputStatus]]] :
         p \in Pairs, there \in BOOLEAN }

NextBaseline ==
    \/ IntervalFire
    \/ \E t \in BagToSet(ticks) : ListResolve(t, listResponse(<<"a">>))
    \/ \E t \in BagToSet(ticks) :
          \E resp \in BaselineResponses(t.req) : BatchResolve(t, resp)
    \/ Reset

SpecBaseline == InitLoop /\ [][NextBaseline]_vars

---------------------------------------------------------------------------
(* The reconnect supervisor on its own.  The ticks a Dashboard starts stay *)
(* suspended: no step of the sampling loop reads or writes the connection  *)
(* objects' fields that the supervisor's steps read.                       *)

NextConn ==
    \/ \E c \in Credentials : AttemptLogin(c)
    \/ LoginConnected
    \/ \E m \in {"Authentication failed.", "unreachable"} : LoginFailed(m)
    \/ \E i \in 1..Len(objs) : ConnectionLost(i)
    \/ \E i \in 1..Len(objs) : DelayElapsed(i)
    \/ \E i \in 1..Len(objs) : ReconnectOk(i)
    \/ \E i \in 1..Len(objs), notify \in BOOLEAN : ReconnectFailed(i, notify)
    \/ Disconnect
    \/ Forget

SpecConn == Init /\ [][NextConn]_vars

---------------------------------------------------------------------------
(* frameCounter on its own. *)

InitPure ==
    /\ objs = <<>>
    /\ obs = 0
    /\ error = ""
    /\ loginPc = 0
    /\ storage = NoStorage
    /\ dash = 0
    /\ ticks = EmptyBag
    /\ InitDashboard
    /\ hist = InitHist

NotReturned == [done |-> FALSE]

InitClassify ==
    /\ InitPure
    /\ call \in { [totalFrames |-> t, skippedFrames |-> sk] :
                    t \in 0..MaxFrames, sk \in 0..MaxFrames }
    /\ call.skippedFrames <= call.totalFrames
    /\ ret = NotReturned

CallFrameCounter ==
    /\ ~ret.done
    /\ ret' = [done |-> TRUE,
               value |-> frameCounter(call.totalFrames, call.skippedFrames)]
    /\ UNCHANGED <<connVars, loopVars, hist, call>>

NextClassify == CallFrameCounter

SpecClassify == InitClassify /\ [][NextClassify]_vars

---------------------------------------------------------------------------
(* One render of Dashboard on its own: applyStatOffset, ObsStats and       *)
(* OutputsTable for a snapshot pair and a baseline.                        *)

AllStats == { mkStats(p, q) : p \in Pairs, q \in Pairs }

snapshot(stats, outputs) == [some |-> TRUE, stats |-> stats, outputs |-> outputs]

entry(name, st) == [name |-> name, status |-> st]

baseline(render, output, outputs) ==
    [renderSkippedFrames |-> render[1], renderTotalFrames |-> render[2],
     outputSkippedFrames |-> output[1], outputTotalFrames |-> output[2],
     outputs |-> outputs]

baselineEntry(name, frames) ==
    [name |-> name, outputSkippedFrames |-> frames[1],
     outputTotalFrames |-> frames[2]]

\* baselines of the render and output pairs: both set to the same counts
\* (reset on a snapshot that reports the same for both), or one of them zero
GlobalBaselines ==
    { baseline(p, q, <<>>) : p \in Pairs, q \in Pairs } \cap
    { o \in [renderSkippedFrames : 0..MaxCount, renderTotalFrames : 0..MaxCount,
             outputSkippedFrames : 0..MaxCount, outputTotalFrames : 0..MaxCount,
             outputs : {<<>>}] :
         \/ o.renderTotalFrames = 0
         \/ o.outputTotalFrames = 0
         \/ /\ o.renderSkippedFrames = o.outputSkippedFrames
            /\ o.renderTotalFrames = o.outputTotalFrames }

\* the global counters vary, there are no outputs
GlobalInputs ==
    { [state |-> [status |-> st, prevStatus |-> pv], offset |-> o] :
         st \in { snapshot(x, <<>>) : x \in AllStats \cup {NoStats} } \cup {NoStatus},
         pv \in { snapshot(x, <<>>) : x \in AllStats \cup {NoStats} } \cup {NoStatus},
         o \in GlobalBaselines }

\* the frame counts of "a" vary, "b" comes and goes, the global counters
\* roll back or not
FramesOfB == { <<0, 1>>, <<1, 2>> }

OutputInputs ==
    LET cur == mkStats(<<0, 1>>, <<0, 1>>)
        A == { mkOutputStatus(p, 0) : p \in Pairs }
        B == { mkOutputStatus(p, 0) : p \in FramesOfB }
        curOutputs == { <<entry("a", x)>> : x \in A }
                        \cup { <<entry("a", x), entry("b", y)>> : x \in A, y \in B }
        prevOutputs == { <<>> } \cup { <<entry("a", x)>> : x \in A }
                        \cup { <<entry("b", y), entry("a", x)>> : x \in A, y \in B }
        offOutputs == { <<>> } \cup { <<baselineEntry("a", p)>> : p \in Pairs }
                        \cup { <<baselineEntry("a", p), baselineEntry("b", q)>> :
                                  p \in Pairs, q \in FramesOfB }
    IN  { [state |-> [status |-> snapshot(cur, o), prevStatus |-> pv],
           offset |-> baseline(g, g, oo)] :
             o \in curOutputs,
             pv \in { snapshot(x, po) :
                        x \in { cur, mkStats(<<0, 2>>, <<0, 1>>) },
                        po \in prevOutputs } \cup {NoStatus},
             g \in { <<0, 0>>, <<0, 1>> },
             oo \in offOutputs }

\* the bytes of "a" vary
ByteInputs ==
    LET cur == mkStats(<<0, 1>>, <<0, 1>>)
        A == { mkOutputStatus(<<0, 1>>, b) : b \in 0..MaxBytes }
    IN  { [state |-> [status |-> snapshot(cur, <<entry("a", x)>>),
                      prevStatus |-> pv],
           offset |-> nullFrameOffset] :
             x \in A,
             pv \in { snapshot(cur, po) :
                        po \in { <<>> } \cup { <<entry("a", y)>> : y \in A }
                                 \cup { <<entry("b", y), entry("a", z)>> :
                                          y \in A, z \in A } }
                      \cup {NoStatus} }

InitRender ==
    /\ InitPure
    /\ call \in GlobalInputs \cup OutputInputs \cup ByteInputs
    /\ call.state.prevStatus.some => call.state.status.some
    /\ ret = NotReturned

CallDashboard ==
    /\ ~ret.done
    /\ ret' = [done |-> TRUE, view |-> Dashboard(call.state, call.offset)]
    /\ UNCHANGED <<connVars, loopVars, hist, call>>

NextRender == CallDashboard

SpecRender == InitRender /\ [][NextRender]_vars

---------------------------------------------------------------------------
(* Teardown: the sampling loop of a mounted Dashboard together with the    *)
(* connection's loss, the handler's reconnects and Dashboard.disconnect.   *)
(* The engine reports one output, "a".                                     *)

TeardownStats == { mkStats(<<0, 1>>, <<0, 1>>), mkStats(<<1, 2>>, <<1, 2>>) }

TeardownResponses(req) ==
    BatchResponses(req, {listResponse(<<"a">>)}, TeardownStats,
                   {mkOutputStatus(<<0, 1>>, 1)})

NextTeardown ==
    \/ IntervalFire
    \/ \E t \in BagToSet(ticks) : ListResolve(t, listResponse(<<"a">>))
    \/ \E t \in BagToSet(ticks) : TickReject(t)
    \/ \E t \in BagToSet(ticks) :
          \E resp \in TeardownResponses(t.req) : BatchResolve(t, resp)
    \/ \E i \in 1..Len(objs) : ConnectionLost(i)
    \/ \E i \in 1..Len(objs) : DelayElapsed(i)
    \/ \E i \in 1..Len(objs) : ReconnectOk(i)
    \/ \E i \in 1..Len(objs), notify \in BOOLEAN : ReconnectFailed(i, notify)
    \/ Disconnect

SpecTeardown == InitLoop /\ [][NextTeardown]_vars

---------------------------------------------------------------------------
(* Properties of the sampling loop (Spec). *)

\* C1: after every committed tick, status is the snapshot that tick built
\* and prevStatus is the snapshot that was status just before it, which is
\* the one the commit before built; prevStatus is absent until the second
\* commit.  After three commits T1, T2, T3, prevStatus is T2's snapshot.
C1_PrevStatusIsPriorCommit ==
    /\ hist.commits = 0 => ~status.some /\ ~prevStatus.some
    /\ hist.commits = 1 => status = hist.lastCommitted /\ ~prevStatus.some
    /\ hist.commits >= 2 => /\ status = hist.lastCommitted
                            /\ prevStatus.some
                            /\ prevStatus = hist.prevCommitted

\* three commits have happened and the last two snapshots differ
C1_ThirdCommit ==
    /\ hist.commits = 3
    /\ prevStatus.some
    /\ prevStatus = hist.prevCommitted
    /\ prevStatus # status

\* C4: ticks are serialized: no fetchStats invocation starts while an
\* earlier invocation's batch call is outstanding.
C4_TicksSerialized ==
    [][InFlight' > InFlight => \A t \in BagToSet(ticks) : t.pc # "batch"]_vars

\* C6: a tick whose call rejects, or whose batch has an empty sub-response
\* for GetStats or GetOutputList, leaves status and prevStatus as they were.
C6_FailedTickCommitsNothing ==
    [][(/\ hist' # hist
        /\ hist'.last \in {"tickRejected", "batchThrew",
                           "committedNoStats", "committedNoList"})
          => UNCHANGED <<status, prevStatus>>]_vars

\* C15: the status requests of a tick are for the names in the list result
\* of the tick completed before it (or of a synchronous list call): when
\* the batch of a tick resolves, the known names, which the last completed
\* tick or list call left, are the names this tick requested.  So a name
\* first listed by tick N is queried by tick N+1, and a name tick N no longer
\* lists is not.
C15_RequestsFollowLastList ==
    [][\A t \in BagToSet(ticks) :
          (/\ t.pc = "batch"
           /\ ticks' = ticks (-) SetToBag({t})
           /\ hist'.last # "tickRejected")
             => t.req = outputNames]_vars

\* C16: the outputs of the committed snapshot are the status results of the
\* tick's own requests, each under the name its request was built for,
\* without the names whose result is absent.
C16_PairedWithOwnRequests ==
    hist.commits >= 1 => hist.ownRequests

---------------------------------------------------------------------------
(* Properties of teardown (SpecTeardown). *)

\* C11: while no Dashboard is mounted (after disconnect) no tick starts or
\* issues a call, and status, prevStatus and the known names do not change;
\* while one is mounted, status and prevStatus change only when a tick
\* that this Dashboard started completes.
C11_NoTickAfterTeardown ==
    [][/\ (obs = 0 /\ obs' = 0)
            => /\ UNCHANGED <<status, prevStatus, outputNames>>
               /\ ticks' \sqsubseteq ticks
       /\ (obs # 0 /\ obs' = obs /\ <<status, prevStatus>>' # <<status, prevStatus>>)
            => \E t \in BagToSet(ticks) :
                  /\ t.dash = dash
                  /\ t.obj = obs
                  /\ ticks' = ticks (-) SetToBag({t})]_vars

\* Dashboard.disconnect was called with a tick in flight, the handler then
\* reconnected the object, and the tick is still suspended
C11_InFlightAtTeardown ==
    /\ obs = 0
    /\ \E t \in BagToSet(ticks) :
          /\ objs[t.obj].disconnected
          /\ objs[t.obj].sock = "open"
          /\ t.pc = "batch"
    /\ status.some

---------------------------------------------------------------------------
(* Properties of the baseline over successive ticks (SpecBaseline). *)

\* C3: right after reset and the render that follows it, with no tick in
\* between, every adjusted current counter is zero: the render and output
\* pairs and the pair of every output.
C3_ResetZeroes ==
    hist.last = "reset" /\ status.some =>
        LET view == Dashboard(State, offset)
        IN  /\ ~view.threw
            /\ view.adjustedStats.renderSkippedFrames = 0
            /\ view.adjustedStats.renderTotalFrames = 0
            /\ view.adjustedStats.outputSkippedFrames = 0
            /\ view.adjustedStats.outputTotalFrames = 0
            /\ \A i \in 1..Len(view.adjustedOutputs) :
                  /\ view.adjustedOutputs[i].status.outputSkippedFrames = 0
                  /\ view.adjustedOutputs[i].status.outputTotalFrames = 0

\* C19: after any sequence of committed ticks and resets, the adjusted
\* current renderSkippedFrames, renderTotalFrames, outputSkippedFrames and
\* outputTotalFrames are not negative.
C19_GlobalsNeverNegative ==
    status.some =>
        LET view == Dashboard(State, offset)
        IN  /\ ~view.threw
            /\ view.adjustedStats.renderSkippedFrames >= 0
            /\ view.adjustedStats.renderTotalFrames >= 0
            /\ view.adjustedStats.outputSkippedFrames >= 0
            /\ view.adjustedStats.outputTotalFrames >= 0

\* C20: after any sequence of committed ticks and resets, also when an
\* output was missing from a snapshot and came back with restarted
\* counters, the adjusted outputSkippedFrames and outputTotalFrames of every
\* output of the current snapshot are not negative.
C20_OutputsNeverNegative ==
    status.some =>
        LET view == Dashboard(State, offset)
        IN  /\ ~view.threw
            /\ \A i \in 1..Len(view.adjustedOutputs) :
                  /\ view.adjustedOutputs[i].status.outputSkippedFrames >= 0
                  /\ view.adjustedOutputs[i].status.outputTotalFrames >= 0

---------------------------------------------------------------------------
(* Properties of the reconnect supervisor (SpecConn). *)

\* C5: after Dashboard.disconnect no obs.connect is called on that object.
C5_NoConnectAfterDisconnect ==
    \A i \in 1..Len(objs) : objs[i].attemptsAfterDisconnect = 0

\* C12: when the last login attempt had an address that does not parse as
\* a URL and no login is in progress, the login form shows an error
\* message and there is no connection.
C12_MalformedAddressShowsError ==
    (/\ Len(objs) > 0
     /\ addressUrl(objs[Len(objs)].address) = ""
     /\ loginPc = 0)
       => obs = 0 /\ error # ""

\* C13: login stores the address and password and registers the
\* ConnectionClosed handler iff its connect succeeded.  A login whose
\* connect resolves stores its own address and password and registers the
\* handler; a login whose connect rejects returns a message and no
\* connection, and leaves localStorage alone; localStorage changes only
\* then or by forget; an object whose login did not succeed never has a
\* handler registered, gets no notification and makes no connect attempt
\* beyond login's own.
C13_PersistIffConnected ==
    [][/\ (loginPc # 0 /\ loginPc' = 0 /\ obs' # 0)
            => /\ obs' = loginPc
               /\ storage' = [address |-> objs[loginPc].address,
                              password |-> objs[loginPc].password]
               /\ objs'[loginPc].listening
               /\ objs'[loginPc].sock = "open"
       /\ (loginPc # 0 /\ loginPc' = 0 /\ obs' = 0)
            => /\ storage' = storage
               /\ error' # ""
               /\ ~objs'[loginPc].listening
               /\ objs'[loginPc].sock = "closed"
       /\ storage' # storage
            => \/ loginPc # 0 /\ obs' = loginPc
               \/ storage' = NoStorage
       /\ \A i \in 1..Len(objs') :
             objs'[i].epoch = 0
                => /\ ~objs'[i].listening
                   /\ objs'[i].events = 0
                   /\ objs'[i].attempts = 0
                   /\ objs'[i].sock # "open"]_vars

\* a login failed after an earlier one had succeeded: the form shows the
\* message and localStorage still holds the earlier login's address
C13_FailedAfterStored ==
    /\ obs = 0
    /\ loginPc = 0
    /\ error = "Authentication failed."
    /\ Len(objs) = 2
    /\ objs[2].epoch = 0
    /\ objs[2].sock = "closed"
    /\ storage.address = objs[1].address
    /\ objs[2].address # objs[1].address

\* C10 as stated: once an attempt of the handler has failed, the handler
\* makes no further attempt on that object.
C10_NoAttemptAfterFailure ==
    [][\A i \in 1..Len(objs) :
          objs[i].failed => objs'[i].attempts = objs[i].attempts]_vars

\* C10, amended: every ConnectionClosed notification delivered to the
\* handler leads, after the delay, to exactly one obs.connect call, made
\* with the URL and password of login's own call; each notification is
\* either still waiting in the delay or has made its one call.  The number
\* of attempts is not limited: a notification for a failed attempt's close
\* leads to one more.
C10_OneAttemptPerNotification ==
    \A i \in 1..Len(objs) :
        /\ objs[i].attempts + objs[i].waiting = objs[i].events
        /\ objs[i].attempts > 0 => /\ objs[i].lastConnect = objs[i].loginConnect
                                   /\ objs[i].lastConnect.url # ""

\* a second attempt was made after the first one failed
C10_RetriedAfterFailure ==
    \E i \in 1..Len(objs) :
        /\ objs[i].failed
        /\ objs[i].attempts = 2
        /\ objs[i].lastConnect = objs[i].loginConnect

---------------------------------------------------------------------------
(* Properties of frameCounter (SpecClassify). *)

\* C7: for 0 <= skipped <= total, the ratio is skipped/total when total > 0
\* and 0 otherwise; the class is critical iff skipped*100 > 5*total, warning
\* iff total < skipped*100 <= 5*total, normal otherwise.
C7_FrameCounterTiers ==
    ret.done =>
        LET t == call.totalFrames
            sk == call.skippedFrames
            r == ret.value
        IN  /\ r.skippedRatio[2] > 0
            /\ t > 0 => r.skippedRatio[1] * t = sk * r.skippedRatio[2]
            /\ t = 0 => r.skippedRatio[1] = 0
            /\ r.counterClass = "lag--critical" <=> t > 0 /\ sk * 100 > 5 * t
            /\ r.counterClass = "lag--warning"
                  <=> t > 0 /\ sk * 100 > t /\ sk * 100 <= 5 * t
            /\ r.counterClass = "lag--normal" <=> t = 0 \/ sk * 100 <= t

\* the ratio is exactly 0.05 and the class is warning
C7_AtCriticalThreshold ==
    /\ ret.done
    /\ call.totalFrames = 20
    /\ call.skippedFrames = 1
    /\ ret.value.counterClass = "lag--warning"

---------------------------------------------------------------------------
(* Properties of one render (SpecRender). *)

HasStats(s) == s.some /\ s.stats.some

\* the entries of a snapshot's outputs with the given name
Named(outputs, name) == { k \in 1..Len(outputs) : outputs[k].name = name }

\* C2: with a non-zero render baseline total and raw current renderTotal
\* below raw previous renderTotal, applyStatOffset leaves both render
\* baseline entries zero and the adjusted current render counters are the
\* raw ones; the same for the output pair.
C2_RollbackClearsBaseline ==
    ret.done =>
        LET st == call.state.status
            pv == call.state.prevStatus
            v == ret.view
        IN  /\ (/\ call.offset.renderTotalFrames # 0
                /\ HasStats(st) /\ HasStats(pv)
                /\ st.stats.renderTotalFrames < pv.stats.renderTotalFrames)
                  => /\ ~v.threw
                     /\ v.offset.renderSkippedFrames = 0
                     /\ v.offset.renderTotalFrames = 0
                     /\ v.adjustedStats.renderSkippedFrames
                           = st.stats.renderSkippedFrames
                     /\ v.adjustedStats.renderTotalFrames
                           = st.stats.renderTotalFrames
            /\ (/\ call.offset.outputTotalFrames # 0
                /\ HasStats(st) /\ HasStats(pv)
                /\ st.stats.outputTotalFrames < pv.stats.outputTotalFrames)
                  => /\ ~v.threw
                     /\ v.offset.outputSkippedFrames = 0
                     /\ v.offset.outputTotalFrames = 0
                     /\ v.adjustedStats.outputSkippedFrames
                           = st.stats.outputSkippedFrames
                     /\ v.adjustedStats.outputTotalFrames
                           = st.stats.outputTotalFrames

\* a baseline with skipped and total set, raw current below raw previous
\* and below the baseline: without the rule the adjusted total is negative
C2_RolledBack ==
    /\ ret.done
    /\ HasStats(call.state.status) /\ HasStats(call.state.prevStatus)
    /\ call.offset.renderSkippedFrames # 0
    /\ call.state.status.stats.renderTotalFrames
          < call.state.prevStatus.stats.renderTotalFrames
    /\ call.state.status.stats.renderTotalFrames < call.offset.renderTotalFrames
    /\ ret.view.adjustedStats.renderTotalFrames
          = call.state.status.stats.renderTotalFrames
    /\ ret.view.adjustedStats.renderTotalFrames > 0

\* C8: the bits since the last poll of every row are never negative: 0
\* when the previous snapshot has no entry of that name or its outputBytes
\* exceed the current ones, (current - previous) * 8 otherwise.
C8_BitsNeverNegative ==
    ret.done /\ ~ret.view.threw =>
        LET outs == call.state.status.outputs
            prevOuts == call.state.prevStatus.outputs
            rows == ret.view.rows
        IN  /\ Len(rows) = Len(outs)
            /\ \A i \in 1..Len(outs) :
                  LET cur == outs[i].status.outputBytes
                      prior == Named(prevOuts, outs[i].name)
                  IN  /\ rows[i].name = outs[i].name
                      /\ rows[i].bitsSinceLastPoll >= 0
                      /\ prior = {} => rows[i].bitsSinceLastPoll = 0
                      /\ \A k \in prior :
                            rows[i].bitsSinceLastPoll =
                               IF prevOuts[k].status.outputBytes > cur
                               THEN 0
                               ELSE (cur - prevOuts[k].status.outputBytes) * 8

\* the previous bytes of an output exceed its current bytes
C8_BytesWentBack ==
    /\ ret.done
    /\ ~ret.view.threw
    /\ \E i \in 1..Len(call.state.status.outputs) :
          \E k \in Named(call.state.prevStatus.outputs,
                         call.state.status.outputs[i].name) :
             /\ call.state.prevStatus.outputs[k].status.outputBytes
                   > call.state.status.outputs[i].status.outputBytes
             /\ ret.view.rows[i].bitsSinceLastPoll = 0

\* C9: the dropped indicator of a counter is set iff the previous snapshot
\* has an entry for it and the raw current skipped count exceeds the raw
\* previous one; with no previous snapshot no indicator is set.
C9_DroppedIffSkippedGrew ==
    ret.done /\ ~ret.view.threw =>
        LET st == call.state.status
            pv == call.state.prevStatus
            v == ret.view
        IN  /\ v.obsStats.renderFramesDropped
                  <=> /\ HasStats(pv) /\ HasStats(st)
                      /\ st.stats.renderSkippedFrames > pv.stats.renderSkippedFrames
            /\ v.obsStats.encodeFramesDropped
                  <=> /\ HasStats(pv) /\ HasStats(st)
                      /\ st.stats.outputSkippedFrames > pv.stats.outputSkippedFrames
            /\ Len(v.rows) = Len(st.outputs)
            /\ \A i \in 1..Len(st.outputs) :
                  v.rows[i].droppedFrames
                     <=> \E k \in Named(pv.outputs, st.outputs[i].name) :
                            st.outputs[i].status.outputSkippedFrames
                               > pv.outputs[k].status.outputSkippedFrames
            /\ ~pv.some => /\ ~v.obsStats.renderFramesDropped
                           /\ ~v.obsStats.encodeFramesDropped
                           /\ \A i \in 1..Len(v.rows) : ~v.rows[i].droppedFrames

\* an indicator is set under a non-zero baseline
C9_DropShown ==
    /\ ret.done
    /\ ~ret.view.threw
    /\ call.offset.renderSkippedFrames # 0
    /\ ret.view.obsStats.renderFramesDropped
    /\ ~ret.view.obsStats.encodeFramesDropped

\* C14: for each output of the current snapshot that has a baseline entry,
\* applyStatOffset zeroes the entry iff the entry's outputTotalFrames is
\* non-zero and the previous snapshot has an entry of the same name whose
\* raw outputTotalFrames exceeds the raw current one; otherwise, and in
\* particular when the previous snapshot has no entry of that name, the
\* entry is left as it was.  No entry is added or removed.
C14_NamedRollbackRule ==
    ret.done /\ ~ret.view.threw =>
        LET st == call.state.status
            pv == call.state.prevStatus
            before == call.offset.outputs
            after == ret.view.offset.outputs
        IN  /\ Len(after) = Len(before)
            /\ \A j \in 1..Len(before) : after[j].name = before[j].name
            /\ \A i \in 1..Len(st.outputs) :
                  \A j \in Named(before, st.outputs[i].name) :
                     LET detected ==
                            /\ before[j].outputTotalFrames # 0
                            /\ \E k \in Named(pv.outputs, st.outputs[i].name) :
                                  st.outputs[i].status.outputTotalFrames
                                     < pv.outputs[k].status.outputTotalFrames
                     IN  /\ detected => /\ after[j].outputSkippedFrames = 0
                                        /\ after[j].outputTotalFrames = 0
                         /\ ~detected => after[j] = before[j]

\* "a" rolled back under a baseline entry with both counts set, and was
\* cleared; the previous snapshot lists "b" before "a"
C14_NamedRolledBack ==
    /\ ret.done
    /\ ~ret.view.threw
    /\ Len(call.state.prevStatus.outputs) = 2
    /\ \E j \in Named(call.offset.outputs, "a") :
          /\ call.offset.outputs[j].outputSkippedFrames # 0
          /\ ret.view.offset.outputs[j].outputTotalFrames = 0
          /\ ret.view.offset.outputs[j].outputSkippedFrames = 0

\* the raw total of a snapshot as the guards of lines 296 and 305 read it
RawRenderTotal(s) == IF HasStats(s) THEN s.stats.renderTotalFrames ELSE 0

RawOutputTotal(s) == IF HasStats(s) THEN s.stats.outputTotalFrames ELSE 0

\* C17: the rollback rule works per counter group.  The render pair of the
\* baseline changes only if the render pair rolled back, the output pair
\* only if the output pair rolled back, and the entry of a name only if the
\* output of that name rolled back; every other group is left as it was.
C17_RollbackPerGroup ==
    ret.done /\ ~ret.view.threw =>
        LET st == call.state.status
            pv == call.state.prevStatus
            before == call.offset
            after == ret.view.offset
            renderDetected == /\ before.renderTotalFrames # 0
                              /\ RawRenderTotal(st) < RawRenderTotal(pv)
            outputDetected == /\ before.outputTotalFrames # 0
                              /\ RawOutputTotal(st) < RawOutputTotal(pv)
            namedDetected(name) ==
                \E i \in Named(st.outputs, name) :
                   \E k \in Named(pv.outputs, name) :
                      st.outputs[i].status.outputTotalFrames
                         < pv.outputs[k].status.outputTotalFrames
        IN  /\ ~renderDetected
                  => /\ after.renderSkippedFrames = before.renderSkippedFrames
                     /\ after.renderTotalFrames = before.renderTotalFrames
            /\ ~outputDetected
                  => /\ after.outputSkippedFrames = before.outputSkippedFrames
                     /\ after.outputTotalFrames = before.outputTotalFrames
            /\ Len(after.outputs) = Len(before.outputs)
            /\ \A j \in 1..Len(before.outputs) :
                  ~namedDetected(before.outputs[j].name)
                     => after.outputs[j] = before.outputs[j]

\* the render pair rolled back and was cleared while the entries of "a"
\* and "b", both set, stayed
C17_RenderOnly ==
    /\ ret.done
    /\ ~ret.view.threw
    /\ call.offset.renderTotalFrames # 0
    /\ ret.view.offset.renderTotalFrames = 0
    /\ Len(call.offset.outputs) = 2
    /\ \A j \in 1..Len(call.offset.outputs) :
          /\ call.offset.outputs[j].outputTotalFrames # 0
          /\ ret.view.offset.outputs[j] = call.offset.outputs[j]

\* C18: the same baseline is subtracted from the current and the previous
\* snapshot.  When the previous snapshot exists, for each global counter
\* adjusted current - adjusted previous = raw current - raw previous, and
\* for each name in both snapshots the same holds for its
\* outputSkippedFrames and outputTotalFrames, also when a rollback clears
\* the baseline in this call.
C18_SameBaselineForBoth ==
    ret.done /\ ~ret.view.threw =>
        LET st == call.state.status
            pv == call.state.prevStatus
            v == ret.view
        IN  /\ (HasStats(st) /\ HasStats(pv))
                  => /\ v.adjustedPrevStats.some
                     /\ v.adjustedStats.renderSkippedFrames
                           - v.adjustedPrevStats.renderSkippedFrames
                        = st.stats.renderSkippedFrames - pv.stats.renderSkippedFrames
                     /\ v.adjustedStats.renderTotalFrames
                           - v.adjustedPrevStats.renderTotalFrames
                        = st.stats.renderTotalFrames - pv.stats.renderTotalFrames
                     /\ v.adjustedStats.outputSkippedFrames
                           - v.adjustedPrevStats.outputSkippedFrames
                        = st.stats.outputSkippedFrames - pv.stats.outputSkippedFrames
                     /\ v.adjustedStats.outputTotalFrames
                           - v.adjustedPrevStats.outputTotalFrames
                        = st.stats.outputTotalFrames - pv.stats.outputTotalFrames
            /\ Len(v.adjustedOutputs) = Len(st.outputs)
            /\ Len(v.adjustedPrevOutputs) = Len(pv.outputs)
            /\ \A i \in 1..Len(st.outputs) :
                  \A k \in Named(pv.outputs, st.outputs[i].name) :
                     /\ v.adjustedOutputs[i].name = st.outputs[i].name
                     /\ v.adjustedPrevOutputs[k].name = pv.outputs[k].name
                     /\ v.adjustedOutputs[i].status.outputSkippedFrames
                           - v.adjustedPrevOutputs[k].status.outputSkippedFrames
                        = st.outputs[i].status.outputSkippedFrames
                             - pv.outputs[k].status.outputSkippedFrames
                     /\ v.adjustedOutputs[i].status.outputTotalFrames
                           - v.adjustedPrevOutputs[k].status.outputTotalFrames
                        = st.outputs[i].status.outputTotalFrames
                             - pv.outputs[k].status.outputTotalFrames

\* the output pair rolls back in this call under a baseline with both
\* counts set, and the adjusted previous counters are the raw ones
C18_OnRollback ==
    /\ ret.done
    /\ ~ret.view.threw
    /\ HasStats(call.state.status) /\ HasStats(call.state.prevStatus)
    /\ call.offset.outputSkippedFrames # 0
    /\ call.state.status.stats.outputTotalFrames
          < call.state.prevStatus.stats.outputTotalFrames
    /\ ret.view.adjustedPrevStats.outputTotalFrames
          = call.state.prevStatus.stats.outputTotalFrames
    /\ ret.view.adjustedPrevStats.outputSkippedFrames
          = call.state.prevStatus.stats.outputSkippedFrames

=============================================================================
